---- MODULE Spec2Model ----
(***************************************************************************)
(* A model of simple_mbtiles_server: the archive accessor MBTilesDB        *)
(* (core.py) and the two HTTP handlers of create_app (server.py).          *)
(*                                                                         *)
(* Python values are modelled as follows.                                  *)
(*   bytes           a sequence of byte values (0..255)                    *)
(*   Optional[bytes] a record [some, data]; None is [some |-> FALSE]       *)
(*   str             a sequence of one-character strings                   *)
(*   dict            a function from keys to values                        *)
(* The archive is never written: the tiles and metadata of an archive      *)
(* never change.                                                           *)
(***************************************************************************)
EXTENDS Integers, Sequences, FiniteSets, TLC

VARIABLES
    tiles,      \* the tiles table: a set of rows (zoom_level, tile_column, tile_row, tile_data)
    metadata,   \* the metadata table: a sequence of rows (name, value), in rowid order
    pc,         \* where the request in flight stands
    path,       \* the raw path parameters of the request, <<z, x, y>> as strings
    z,          \* get_tile's parameter z, after validation
    x,          \* get_tile's parameter x, after validation
    xyz_y,      \* get_tile's local xyz_y
    tms_y,      \* get_tile's local tms_y
    tile_data,  \* get_tile's local tile_data
    call,       \* the arguments of the last MBTilesDB.get_tile call
    ret,        \* what the last MBTilesDB.get_tile call returned
    reads,      \* the tile_row values queried against the tiles table, in order
    gunzips,    \* the number of gzip.decompress calls made
    status,     \* the response's status code, 0 while there is none
    body,       \* the response's content (tile bytes)
    media,      \* the response's media type
    json,       \* the response's JSON object (GET /metadata)
    meta_ret,   \* what the last MBTilesDB.get_metadata call returned
    flips,      \* the rows computed so far when the row conversions run alone
    other,      \* the metadata table of a second archive holding the same tiles
    first,      \* the answer the first archive gave to the request replayed on the second
    compressed, \* what the last MBTilesDB.is_compressed call returned
    procs,      \* the concurrent callers of MBTilesDB and where each stands in its call
    conns       \* the sqlite3 connections opened so far

\* The state used only when two archives are compared or callers run concurrently.
extra == <<other, first, compressed, procs, conns>>

vars == <<tiles, metadata, pc, path, z, x, xyz_y, tms_y, tile_data, call, ret,
          reads, gunzips, status, body, media, json, meta_ret, flips, extra>>

-----------------------------------------------------------------------------
(* Bounds of the model. *)

\* Zoom levels 0..MaxZoom occur in archives and in requests.
MaxZoom == 1

\* The metadata table holds at most MaxMetaRows rows.
MaxMetaRows == 3

\* flip_y is exercised alone on zoom levels 0..MaxFlipZoom.
MaxFlipZoom == 5

\* Where two archives are compared, their tiles table holds at most
\* MaxSniffTiles records.
MaxSniffTiles == 1

\* NumCallers callers use one MBTilesDB concurrently, each making at most
\* MaxCalls calls, one after the other.
NumCallers == 2

MaxCalls == 2

-----------------------------------------------------------------------------
(* Python values. *)

None == [some |-> FALSE, data |-> <<>>]

Some(b) == [some |-> TRUE, data |-> b]

\* Python truthiness of an Optional[bytes]: None and b'' are both falsy.
Truthy(v) == v.some /\ Len(v.data) > 0

EmptyDict == [k \in {} |-> ""]

\* d[k] = v on a dict.
DictPut(d, k, v) == [n \in (DOMAIN d) \cup {k} |-> IF n = k THEN v ELSE d[n]]

Digits == <<"0", "1", "2", "3", "4", "5", "6", "7", "8", "9">>

IsDigit(c) == \E i \in 1..10 : Digits[i] = c

DigitVal(c) == (CHOOSE i \in 1..10 : Digits[i] = c) - 1

\* str(n) for n >= 0.
RECURSIVE Str(_)
Str(n) == IF n < 10 THEN <<Digits[n + 1]>> ELSE Str(n \div 10) \o <<Digits[(n % 10) + 1]>>

\* The value of a non-empty string of decimal digits.
RECURSIVE DecimalVal(_)
DecimalVal(s) ==
    IF Len(s) = 0 THEN 0
    ELSE 10 * DecimalVal(SubSeq(s, 1, Len(s) - 1)) + DigitVal(s[Len(s)])

ValueError == [ok |-> FALSE, val |-> 0]

\* int(s): an optional sign, then one or more decimal digits; anything else
\* raises ValueError. (Surrounding whitespace and '_' separators, which int()
\* also accepts, are not among the inputs.)
IntOf(s) ==
    LET signed == Len(s) > 0 /\ s[1] \in {"-", "+"}
        digits == IF signed THEN SubSeq(s, 2, Len(s)) ELSE s
    IN  IF Len(digits) = 0 \/ \E i \in 1..Len(digits) : ~IsDigit(digits[i])
        THEN ValueError
        ELSE [ok |-> TRUE,
              val |-> IF signed /\ s[1] = "-" THEN 0 - DecimalVal(digits)
                      ELSE DecimalVal(digits)]

\* s.split('.')[0]: the part of s before its first '.', all of s if it has none.
SplitFirst(s) ==
    LET dots == {i \in 1..Len(s) : s[i] = "."}
    IN  IF dots = {} THEN s
        ELSE SubSeq(s, 1, (CHOOSE i \in dots : \A j \in dots : i <= j) - 1)

\* s.split(sep): the parts of s between the occurrences of the character sep.
RECURSIVE Split(_, _)
Split(s, sep) ==
    LET at == {i \in 1..Len(s) : s[i] = sep}
    IN  IF at = {} THEN <<s>>
        ELSE LET i == CHOOSE k \in at : \A j \in at : k <= j
             IN  <<SubSeq(s, 1, i - 1)>> \o Split(SubSeq(s, i + 1, Len(s)), sep)

\* sub in s, for strings.
Contains(s, sub) ==
    \E i \in 1..(Len(s) - Len(sub) + 1) : SubSeq(s, i, i + Len(sub) - 1) = sub

\* a << n for n >= 0.
RECURSIVE Shl(_, _)
Shl(a, n) == IF n = 0 THEN a ELSE Shl(2 * a, n - 1)

-----------------------------------------------------------------------------
(* gzip. The container is modelled as the two magic bytes, the payload      *)
(* (deflate modelled as stored, uncompressed data) and a one-byte trailer   *)
(* holding the payload's length modulo 256, standing for CRC32 and ISIZE.   *)

GzipMagic == <<31, 139>>

\* data.startswith(b'\x1f\x8b')
StartsWithMagic(b) == Len(b) >= 2 /\ SubSeq(b, 1, 2) = GzipMagic

GzipError == [ok |-> FALSE, data |-> <<>>]

\* gzip.decompress(b): the payload, or an exception when b is no well-formed
\* gzip member.
GzipDecompress(b) ==
    IF Len(b) >= 3 /\ SubSeq(b, 1, 2) = GzipMagic /\ b[Len(b)] = (Len(b) - 3) % 256
    THEN [ok |-> TRUE, data |-> SubSeq(b, 3, Len(b) - 1)]
    ELSE GzipError

-----------------------------------------------------------------------------
(* server.py: flip_y *)

\* flip_y with the operands of << exchanged.
flip_y_swapped_shift(zoom, y) == Shl(zoom, 1) - 1 - y

flip_y(zoom, y) == Shl(1, zoom) - 1 - y

-----------------------------------------------------------------------------
(* core.py: MBTilesDB *)

\* The tile_row that get_tile(z, x, y) binds in its query.
QueriedRow(zz, y) == (2 ^ zz) - 1 - y

\* SELECT tile_data FROM tiles WHERE zoom_level = ? AND tile_column = ? AND
\* tile_row = ?, then fetchone().
SelectTile(db, zz, xx, row) ==
    LET found == {r \in db : r.zoom_level = zz /\ r.tile_column = xx /\ r.tile_row = row}
    IN  IF found = {} THEN None ELSE Some((CHOOSE r \in found : TRUE).tile_data)

\* MBTilesDB.get_tile(z, x, y)
get_tile(db, zz, xx, y) == SelectTile(db, zz, xx, QueriedRow(zz, y))

\* {name: value for name, value in cursor.fetchall()}: a later row replaces an
\* earlier row of the same name.
RECURSIVE DictOfRows(_)
DictOfRows(rows) ==
    IF Len(rows) = 0 THEN EmptyDict
    ELSE DictPut(DictOfRows(SubSeq(rows, 1, Len(rows) - 1)),
                 rows[Len(rows)].name, rows[Len(rows)].value)

\* get_metadata building {value: name} instead of {name: value}.
get_metadata_swapped(table) ==
    DictOfRows([i \in DOMAIN table |-> [name |-> table[i].value, value |-> table[i].name]])

\* MBTilesDB.get_metadata()
get_metadata(table) == DictOfRows(table)

\* metadata.get(key, default)
DictGet(d, k, default) == IF k \in DOMAIN d THEN d[k] ELSE default

\* MBTilesDB.is_compressed(): no ';'-separated token of generator_options
\* contains "-pC". generator_options is a str, a sequence of characters.
is_compressed(table) ==
    LET opts == Split(DictGet(get_metadata(table), "generator_options", <<>>), ";")
    IN  ~\E i \in DOMAIN opts : Contains(opts[i], <<"-", "p", "C">>)

-----------------------------------------------------------------------------
(* Archives and requests. *)

\* Stored blobs: empty, two plain tiles, the first magic byte alone, gzip of
\* the first plain tile, gzip of no bytes, and a blob with the gzip magic whose
\* trailer is wrong.
Blobs == { <<>>, <<65>>, <<66>>, <<31>>, <<31, 139, 65, 1>>, <<31, 139, 0>>, <<31, 139, 65>> }

RowsAt(zz) == 0..((2 ^ zz) - 1)

\* The tiles tables: column 0 of one zoom level, each row of it holding a blob
\* or nothing. The key (zoom_level, tile_column, tile_row) is unique.
TileTables ==
    UNION { { { [zoom_level |-> zz, tile_column |-> 0, tile_row |-> r, tile_data |-> f[r].data]
                : r \in {q \in RowsAt(zz) : f[q].some} }
              : f \in [RowsAt(zz) -> {None} \cup {Some(b) : b \in Blobs}] }
            : zz \in 0..MaxZoom }

MetaNames == {"name", "format", "version"}

MetaValues == {"t", "pbf"}

MetaRows == [name : MetaNames, value : MetaValues]

MetaTables == UNION { [1..n -> MetaRows] : n \in 0..MaxMetaRows }

\* The metadata rows of the test archive's "name" and "format".
FixtureMetadata == << [name |-> "name", value |-> "t"], [name |-> "format", value |-> "pbf"] >>

\* Raw path parameters: decimal integers, one with a file extension, and
\* strings that are no integers.
ZInputs == {Str(n) : n \in 0..MaxZoom} \cup { <<"a">> }

XInputs == { <<"0">>, <<"1">>, <<"x">> }

YInputs ==
    {Str(n) : n \in RowsAt(MaxZoom)}
        \cup { <<"1", ".", "m", "v", "t">>, <<"a", "b", "c", ".", "m", "v", "t">>,
               <<".", "m", "v", "t">> }

\* No answer recorded from a first archive.
NoAnswer == [given |-> FALSE, path |-> <<>>, status |-> 0, body |-> <<>>, media |-> "",
             gunzips |-> 0]

\* is_compressed not called yet.
NotAsked == [asked |-> FALSE, value |-> FALSE]

\* One archive, no concurrent callers.
NoExtras ==
    /\ other = <<>>
    /\ first = NoAnswer
    /\ compressed = NotAsked
    /\ procs = <<>>
    /\ conns = {}

NoCall == [made |-> FALSE, z |-> 0, x |-> 0, y |-> 0]

Call(zz, xx, y) == [made |-> TRUE, z |-> zz, x |-> xx, y |-> y]

-----------------------------------------------------------------------------
(* The state after create_app: no request in flight. *)

Idle ==
    /\ pc = "idle"
    /\ path = <<>>
    /\ z = 0
    /\ x = 0
    /\ xyz_y = 0
    /\ tms_y = 0
    /\ tile_data = None
    /\ call = NoCall
    /\ ret = None
    /\ reads = <<>>
    /\ gunzips = 0
    /\ status = 0
    /\ body = <<>>
    /\ media = ""
    /\ json = EmptyDict
    /\ meta_ret = EmptyDict
    /\ flips = <<>>

Init ==
    /\ tiles \in TileTables
    /\ metadata = FixtureMetadata
    /\ Idle
    /\ NoExtras

-----------------------------------------------------------------------------
(* server.py: GET /tiles/{z}/{x}/{y} *)

\* raise HTTPException(status_code=code), and the 422 of a failed validation.
ErrorResponse(code) ==
    /\ status' = code
    /\ body' = <<>>
    /\ media' = "application/json"
    /\ pc' = "done"

\* The framework converts the path parameters declared int (z and x) and
\* answers 422 without calling the handler when one is no integer; y is
\* declared str and reaches the handler as it is.
ReceiveTile(zIn, xIn, yIn) ==
    /\ pc = "idle"
    /\ path' = <<zIn, xIn, yIn>>
    /\ IF IntOf(zIn).ok /\ IntOf(xIn).ok
       THEN /\ z' = IntOf(zIn).val
            /\ x' = IntOf(xIn).val
            /\ pc' = "parse"
            /\ UNCHANGED <<status, body, media>>
       ELSE /\ ErrorResponse(422)
            /\ UNCHANGED <<z, x>>
    /\ UNCHANGED <<extra, tiles, metadata, xyz_y, tms_y, tile_data, call, ret, reads,
                   gunzips, json, meta_ret, flips>>

\* xyz_y = int(y.split('.')[0]); tms_y = flip_y(z, xyz_y). A ValueError of
\* int() is caught nowhere: the server answers 500.
ParseRow ==
    /\ pc = "parse"
    /\ LET n == IntOf(SplitFirst(path[3]))
       IN  IF n.ok
           THEN /\ xyz_y' = n.val
                /\ tms_y' = flip_y(z, n.val)
                /\ pc' = "lookup_tms"
                /\ UNCHANGED <<status, body, media>>
           ELSE /\ ErrorResponse(500)
                /\ UNCHANGED <<xyz_y, tms_y>>
    /\ UNCHANGED <<extra, tiles, metadata, path, z, x, tile_data, call, ret, reads,
                   gunzips, json, meta_ret, flips>>

\* One db.get_tile(z, x, y) call of the handler.
AccessorCall(y) ==
    /\ call' = Call(z, x, y)
    /\ ret' = get_tile(tiles, z, x, y)
    /\ tile_data' = get_tile(tiles, z, x, y)
    /\ reads' = Append(reads, QueriedRow(z, y))

\* tile_data = db.get_tile(z, x, tms_y); if not tile_data: ...
LookupTms ==
    /\ pc = "lookup_tms"
    /\ AccessorCall(tms_y)
    /\ pc' = IF Truthy(get_tile(tiles, z, x, tms_y)) THEN "decode" ELSE "lookup_xyz"
    /\ UNCHANGED <<extra, tiles, metadata, path, z, x, xyz_y, tms_y, gunzips, status,
                   body, media, json, meta_ret, flips>>

\* tile_data = db.get_tile(z, x, xyz_y); if not tile_data: raise 404
LookupXyz ==
    /\ pc = "lookup_xyz"
    /\ AccessorCall(xyz_y)
    /\ IF Truthy(get_tile(tiles, z, x, xyz_y))
       THEN /\ pc' = "decode"
            /\ UNCHANGED <<status, body, media>>
       ELSE ErrorResponse(404)
    /\ UNCHANGED <<extra, tiles, metadata, path, z, x, xyz_y, tms_y, gunzips, json,
                   meta_ret, flips>>

\* The handler skipping the magic-number test when is_compressed() is false.
DecodeTileGated(b) ==
    IF is_compressed(metadata) /\ StartsWithMagic(b)
    THEN IF GzipDecompress(b).ok
         THEN [status |-> 200, data |-> GzipDecompress(b).data, gunzips |-> 1]
         ELSE [status |-> 500, data |-> <<>>, gunzips |-> 1]
    ELSE [status |-> 200, data |-> b, gunzips |-> 0]

\* The handler with its except clause answering with the stored bytes.
DecodeTileSwallowing(b) ==
    IF StartsWithMagic(b) /\ GzipDecompress(b).ok
    THEN [status |-> 200, data |-> GzipDecompress(b).data, gunzips |-> 1]
    ELSE [status |-> 200, data |-> b, gunzips |-> IF StartsWithMagic(b) THEN 1 ELSE 0]

\* The try block of the handler and what follows it: the status, the content
\* and the number of gzip.decompress calls for the blob b.
DecodeTile(b) ==
    IF StartsWithMagic(b)
    THEN IF GzipDecompress(b).ok
         THEN [status |-> 200, data |-> GzipDecompress(b).data, gunzips |-> 1]
         ELSE [status |-> 500, data |-> <<>>, gunzips |-> 1]
    ELSE [status |-> 200, data |-> b, gunzips |-> 0]

Decode ==
    /\ pc = "decode"
    /\ LET d == DecodeTile(tile_data.data)
       IN  /\ gunzips' = gunzips + d.gunzips
           /\ IF d.status = 200
              THEN /\ tile_data' = Some(d.data)
                   /\ status' = 200
                   /\ body' = d.data
                   /\ media' = "application/x-protobuf"
                   /\ pc' = "done"
              ELSE /\ ErrorResponse(d.status)
                   /\ UNCHANGED tile_data
    /\ UNCHANGED <<extra, tiles, metadata, path, z, x, xyz_y, tms_y, call, ret, reads,
                   json, meta_ret, flips>>

-----------------------------------------------------------------------------
(* server.py: GET /metadata *)

MetadataRequest ==
    /\ pc = "idle"
    /\ meta_ret' = get_metadata(metadata)
    /\ json' = get_metadata(metadata)
    /\ status' = 200
    /\ media' = "application/json"
    /\ pc' = "done"
    /\ UNCHANGED <<extra, tiles, metadata, path, z, x, xyz_y, tms_y, tile_data, call,
                   ret, reads, gunzips, body, flips>>

-----------------------------------------------------------------------------
(* core.py: MBTilesDB called directly, as the tests call it *)

DirectGetTile(zz, xx, row) ==
    /\ pc = "idle"
    /\ call' = Call(zz, xx, row)
    /\ ret' = get_tile(tiles, zz, xx, row)
    /\ reads' = Append(reads, QueriedRow(zz, row))
    /\ pc' = "returned"
    /\ UNCHANGED <<extra, tiles, metadata, path, z, x, xyz_y, tms_y, tile_data,
                   gunzips, status, body, media, json, meta_ret, flips>>

DirectGetMetadata ==
    /\ pc = "idle"
    /\ meta_ret' = get_metadata(metadata)
    /\ pc' = "returned"
    /\ UNCHANGED <<extra, tiles, metadata, path, z, x, xyz_y, tms_y, tile_data, call,
                   ret, reads, gunzips, status, body, media, json, flips>>

-----------------------------------------------------------------------------

Next ==
    \/ \E zIn \in ZInputs, xIn \in XInputs, yIn \in YInputs : ReceiveTile(zIn, xIn, yIn)
    \/ ParseRow
    \/ LookupTms
    \/ LookupXyz
    \/ Decode
    \/ MetadataRequest
    \/ \E zz \in 0..MaxZoom, xx \in 0..1, row \in RowsAt(MaxZoom) : DirectGetTile(zz, xx, row)
    \/ DirectGetMetadata

Spec == Init /\ [][Next]_vars

-----------------------------------------------------------------------------
(* The metadata table alone: every table of at most MaxMetaRows rows, names *)
(* repeated or not, over an archive without tiles.                          *)

InitMeta ==
    /\ tiles = {}
    /\ metadata \in MetaTables
    /\ Idle
    /\ NoExtras

NextMeta ==
    \/ MetadataRequest
    \/ DirectGetMetadata

SpecMeta == InitMeta /\ [][NextMeta]_vars

-----------------------------------------------------------------------------
(* The row conversions alone: flip_y once, flip_y on its own result, and    *)
(* the conversion get_tile applies, on every row of every zoom level up to  *)
(* MaxFlipZoom.                                                             *)

InitFlip ==
    /\ tiles = {}
    /\ metadata = FixtureMetadata
    /\ pc = "flip"
    /\ path = <<>>
    /\ z \in 0..MaxFlipZoom
    /\ x = 0
    /\ xyz_y \in RowsAt(z)
    /\ tms_y = 0
    /\ tile_data = None
    /\ call = NoCall
    /\ ret = None
    /\ reads = <<>>
    /\ gunzips = 0
    /\ status = 0
    /\ body = <<>>
    /\ media = ""
    /\ json = EmptyDict
    /\ meta_ret = EmptyDict
    /\ flips = <<>>
    /\ NoExtras

FlipOnce ==
    /\ pc = "flip"
    /\ tms_y' = flip_y(z, xyz_y)
    /\ flips' = <<flip_y(z, xyz_y)>>
    /\ pc' = "flipped"
    /\ UNCHANGED <<extra, tiles, metadata, path, z, x, xyz_y, tile_data, call, ret,
                   reads, gunzips, status, body, media, json, meta_ret>>

FlipTwice ==
    /\ pc = "flipped"
    /\ flips' = Append(flips, flip_y(z, tms_y))
    /\ pc' = "flipped_back"
    /\ UNCHANGED <<extra, tiles, metadata, path, z, x, xyz_y, tms_y, tile_data, call,
                   ret, reads, gunzips, status, body, media, json, meta_ret>>

CoreConversion ==
    /\ pc = "flipped_back"
    /\ flips' = Append(flips, QueriedRow(z, xyz_y))
    /\ pc' = "converted"
    /\ UNCHANGED <<extra, tiles, metadata, path, z, x, xyz_y, tms_y, tile_data, call,
                   ret, reads, gunzips, status, body, media, json, meta_ret>>

NextFlip ==
    \/ FlipOnce
    \/ FlipTwice
    \/ CoreConversion

SpecFlip == InitFlip /\ [][NextFlip]_vars

-----------------------------------------------------------------------------
(* Two archives that hold the same tiles table and differ in the metadata    *)
(* value of generator_options: a request is answered from the first, then   *)
(* the same request is answered from the second.                            *)

\* Values of generator_options: a "-pC" token, a token containing "-pC", no
\* such token, and "-p" and "C" in two tokens.
GeneratorOptions ==
    { <<"-", "p", "C">>, <<"a", ";", "-", "p", "C", "9">>, <<"a">>, <<"-", "p", ";", "C">> }

\* The metadata tables: the test archive's rows, without generator_options or
\* with one of its values.
SniffMetadata ==
    {FixtureMetadata}
        \cup {Append(FixtureMetadata, [name |-> "generator_options", value |-> g])
                : g \in GeneratorOptions}

SniffTables == {t \in TileTables : Cardinality(t) <= MaxSniffTiles}

InitSniff ==
    /\ tiles \in SniffTables
    /\ metadata \in SniffMetadata
    /\ other \in SniffMetadata \ {metadata}
    /\ first = NoAnswer
    /\ compressed = NotAsked
    /\ procs = <<>>
    /\ conns = {}
    /\ Idle

\* The handler state of a newly created app.
FreshApp ==
    /\ pc' = "idle"
    /\ path' = <<>>
    /\ z' = 0
    /\ x' = 0
    /\ xyz_y' = 0
    /\ tms_y' = 0
    /\ tile_data' = None
    /\ call' = NoCall
    /\ ret' = None
    /\ reads' = <<>>
    /\ gunzips' = 0
    /\ status' = 0
    /\ body' = <<>>
    /\ media' = ""
    /\ json' = EmptyDict
    /\ meta_ret' = EmptyDict
    /\ flips' = <<>>

\* A request to the app of the first archive.
FirstRequest(zIn, xIn, yIn) ==
    /\ ~first.given
    /\ ReceiveTile(zIn, xIn, yIn)

\* The answer of the first archive is kept, and the app of the second archive,
\* created over the same tiles, takes its place.
SwitchArchive ==
    /\ pc = "done"
    /\ ~first.given
    /\ first' = [given |-> TRUE, path |-> path, status |-> status, body |-> body,
                 media |-> media, gunzips |-> gunzips]
    /\ metadata' = other
    /\ other' = metadata
    /\ FreshApp
    /\ UNCHANGED <<tiles, compressed, procs, conns>>

\* The same request to the app of the second archive.
ReplayRequest ==
    /\ first.given
    /\ ReceiveTile(first.path[1], first.path[2], first.path[3])

\* MBTilesDB.is_compressed(), which the handlers never call.
DirectIsCompressed ==
    /\ pc = "idle"
    /\ compressed' = [asked |-> TRUE, value |-> is_compressed(metadata)]
    /\ meta_ret' = get_metadata(metadata)
    /\ pc' = "returned"
    /\ UNCHANGED <<tiles, metadata, path, z, x, xyz_y, tms_y, tile_data, call,
                   ret, reads, gunzips, status, body, media, json, flips,
                   other, first, procs, conns>>

NextSniff ==
    \/ \E zIn \in ZInputs, xIn \in XInputs, yIn \in YInputs : FirstRequest(zIn, xIn, yIn)
    \/ ParseRow
    \/ LookupTms
    \/ LookupXyz
    \/ Decode
    \/ SwitchArchive
    \/ ReplayRequest
    \/ DirectIsCompressed

SpecSniff == InitSniff /\ [][NextSniff]_vars

-----------------------------------------------------------------------------
(* core.py: MBTilesDB.get_connection, get_metadata and get_tile step by     *)
(* step, called by concurrent callers. A step of one caller may fall        *)
(* between any two steps of another.                                        *)

\* The handler state, which the accessor's callers leave alone.
app == <<pc, path, z, x, xyz_y, tms_y, tile_data, call, ret, reads, gunzips,
         status, body, media, json, meta_ret, flips>>

\* The archive of the tests: one plain tile at zoom 0.
ConnTiles == { [zoom_level |-> 0, tile_column |-> 0, tile_row |-> 0, tile_data |-> <<65>>] }

\* The calls made: get_metadata(), and get_tile on a stored and on a missing tile.
CallKinds ==
    { [op |-> "get_metadata", z |-> 0, x |-> 0, y |-> 0],
      [op |-> "get_tile", z |-> 0, x |-> 0, y |-> 0],
      [op |-> "get_tile", z |-> 1, x |-> 1, y |-> 1] }

NoResult == [tile |-> None, meta |-> EmptyDict]

\* A caller that has made no call yet.
IdleCaller ==
    [pc |-> "idle", n |-> 0, kind |-> [op |-> "none", z |-> 0, x |-> 0, y |-> 0],
     conn |-> <<>>, result |-> NoResult]

\* One connection object kept on the MBTilesDB instance and handed to every call.
ConnOnInstance(p, n) == <<0, 0>>

\* The connection object one call of sqlite3.connect() returns to the n-th
\* call of caller p: a new object for each call.
ConnOf(p, n) == <<p, n>>

\* The identity of the n-th call of caller p.
CallId(p, n) == <<p, n>>

InitConn ==
    /\ tiles = ConnTiles
    /\ metadata = FixtureMetadata
    /\ Idle
    /\ other = <<>>
    /\ first = NoAnswer
    /\ compressed = NotAsked
    /\ procs = [p \in 1..NumCallers |-> IdleCaller]
    /\ conns = {}

ConnUnchanged == UNCHANGED <<tiles, metadata, app, other, first, compressed>>

\* A caller enters get_metadata or get_tile.
StartCall(p, kind) ==
    /\ procs[p].pc \in {"idle", "returned", "raised"}
    /\ procs[p].n < MaxCalls
    /\ procs' = [procs EXCEPT ![p] = [pc |-> "connect", n |-> procs[p].n + 1, kind |-> kind,
                                      conn |-> <<>>, result |-> NoResult]]
    /\ UNCHANGED conns
    /\ ConnUnchanged

\* conn = sqlite3.connect(str(self.db_path))
Connect(p) ==
    /\ procs[p].pc = "connect"
    /\ LET id == ConnOf(p, procs[p].n)
       IN  /\ procs' = [procs EXCEPT ![p].pc = "execute", ![p].conn = id]
           /\ conns' = IF \E c \in conns : c.id = id
                       THEN {IF c.id = id THEN [c EXCEPT !.open = TRUE] ELSE c : c \in conns}
                       ELSE conns \cup {[id |-> id, owner |-> CallId(p, procs[p].n),
                                         open |-> TRUE, users |-> {}]}
    /\ ConnUnchanged

\* cursor.execute(SELECT ...): the statement runs on the call's connection, or
\* fails (a missing table, an unreadable file) and raises.
Execute(p, ok) ==
    /\ procs[p].pc = "execute"
    /\ procs' = [procs EXCEPT ![p].pc = IF ok THEN "fetch" ELSE "exit_raise"]
    /\ conns' = {IF c.id = procs[p].conn
                 THEN [c EXCEPT !.users = @ \cup {CallId(p, procs[p].n)}] ELSE c : c \in conns}
    /\ ConnUnchanged

\* fetchall() / fetchone() and the value of the return statement.
Fetch(p) ==
    /\ procs[p].pc = "fetch"
    /\ LET k == procs[p].kind
       IN  procs' = [procs EXCEPT
                ![p].pc = "exit_return",
                ![p].result = IF k.op = "get_metadata"
                              THEN [tile |-> None, meta |-> get_metadata(metadata)]
                              ELSE [tile |-> get_tile(tiles, k.z, k.x, k.y), meta |-> EmptyDict]]
    /\ UNCHANGED conns
    /\ ConnUnchanged

\* finally: conn.close(), on the way out of the with block.
Close(p) ==
    /\ procs[p].pc \in {"exit_return", "exit_raise"}
    /\ procs' = [procs EXCEPT ![p].pc = IF procs[p].pc = "exit_return" THEN "returning"
                                        ELSE "raising"]
    /\ conns' = {IF c.id = procs[p].conn THEN [c EXCEPT !.open = FALSE] ELSE c : c \in conns}
    /\ ConnUnchanged

\* The call returns its value, or the exception leaves it.
Leave(p) ==
    /\ procs[p].pc \in {"returning", "raising"}
    /\ procs' = [procs EXCEPT ![p].pc = IF procs[p].pc = "returning" THEN "returned"
                                        ELSE "raised"]
    /\ UNCHANGED conns
    /\ ConnUnchanged

NextConn ==
    \/ \E p \in 1..NumCallers, kind \in CallKinds : StartCall(p, kind)
    \/ \E p \in 1..NumCallers : Connect(p)
    \/ \E p \in 1..NumCallers, ok \in BOOLEAN : Execute(p, ok)
    \/ \E p \in 1..NumCallers : Fetch(p)
    \/ \E p \in 1..NumCallers : Close(p)
    \/ \E p \in 1..NumCallers : Leave(p)

SpecConn == InitConn /\ [][NextConn]_vars

-----------------------------------------------------------------------------
(* Vocabulary of the properties. *)

\* flip(zoom, row) as the specification defines it.
Flip(zz, row) == (2 ^ zz) - 1 - row

\* The tile record stored under exactly this key, if any.
StoredAt(zz, xx, row) == SelectTile(tiles, zz, xx, row)

\* What decoding a stored blob yields, where it yields anything.
Decodable(b) == ~StartsWithMagic(b) \/ GzipDecompress(b).ok

Decoded(b) == IF StartsWithMagic(b) THEN GzipDecompress(b).data ELSE b

\* A tile request has been answered.
TileAnswered == pc = "done" /\ path # <<>>

\* A tile request with well-formed parameters has been answered.
TileResolved == TileAnswered /\ call.made

\* The tile records under the two candidate rows of the request.
Candidates ==
    {r \in tiles : /\ r.zoom_level = z
                   /\ r.tile_column = x
                   /\ r.tile_row \in {xyz_y, Flip(z, xyz_y)}}

\* C1: a request whose row is flip(z, R), for a non-empty (decodable) tile
\* stored at row R, answers 200 with the decoded bytes of that tile, whatever
\* is stored at the requested row itself.
C1_ConvertedFirst ==
    TileResolved =>
        \A r \in tiles :
            (/\ r.zoom_level = z
             /\ r.tile_column = x
             /\ xyz_y = Flip(z, r.tile_row)
             /\ Len(r.tile_data) > 0
             /\ Decodable(r.tile_data))
            => (status = 200 /\ body = Decoded(r.tile_data))

\* C2: get_tile(z, x, row) returns the tile_data stored under exactly
\* (z, x, row), and None when nothing is stored under that key.
C2_ExactKey == call.made => ret = StoredAt(call.z, call.x, call.y)

\* C3: a request whose raw row R holds a (decodable) tile, while row
\* flip(z, R) holds none, answers 200 with the decoded bytes of that tile.
C3_RawFallback ==
    TileResolved =>
        \A r \in tiles :
            (/\ r.zoom_level = z
             /\ r.tile_column = x
             /\ r.tile_row = xyz_y
             /\ ~StoredAt(z, x, Flip(z, xyz_y)).some
             /\ Decodable(r.tile_data))
            => (status = 200 /\ body = Decoded(r.tile_data))

\* C4: a request answers 404, without a tile body, when neither candidate row
\* holds a tile record, and answers 404 only then.
C4_NotFound ==
    TileResolved =>
        /\ (Candidates = {}) => (status = 404 /\ body = <<>>)
        /\ (status = 404) => (Candidates = {})

\* C5: the stored blob a request resolves to, of any length, is answered with
\* 200, its gunzipped bytes if it starts with the gzip magic and is valid gzip,
\* the blob itself if it does not start with the magic, as
\* application/x-protobuf. (Stated where one record lies under the candidate
\* rows, so that the order of the lookups plays no part.)
C5_DecodeNormalization ==
    TileResolved =>
        \A r \in Candidates :
            (Candidates = {r} /\ Decodable(r.tile_data))
            => /\ status = 200
               /\ body = Decoded(r.tile_data)
               /\ media = "application/x-protobuf"

\* C6: when the blob found for a request starts with the gzip magic and does
\* not decompress, the request ends with 500 and no content, after one
\* decompression attempt, and the read that found the blob is the last one.
C6_DecodeErrorTerminal ==
    (TileResolved /\ StartsWithMagic(ret.data) /\ ~GzipDecompress(ret.data).ok)
    => /\ status = 500
       /\ body = <<>>
       /\ gunzips = 1
       /\ Len(reads) \in {1, 2}
       /\ StoredAt(z, x, reads[Len(reads)]) = ret

C6_Witness ==
    /\ TileResolved
    /\ StartsWithMagic(ret.data)
    /\ ~GzipDecompress(ret.data).ok
    /\ Len(reads) = 2

\* C7: a request whose z or x is no integer, or whose y has no integer before
\* its first '.', is answered with a 4xx status and get_tile is not called.
C7_MalformedRejected ==
    (/\ TileAnswered
     /\ \/ ~IntOf(path[1]).ok
        \/ ~IntOf(path[2]).ok
        \/ ~IntOf(SplitFirst(path[3])).ok)
    => (status \in 400..499 /\ ~call.made)

\* C8: flip_y applied to its own result gives the row back, and the conversion
\* inside get_tile gives the same row as flip_y.
C8_FlipInvolution ==
    /\ Len(flips) >= 2 => flips[2] = xyz_y
    /\ Len(flips) >= 3 => flips[3] = flips[1]

C8_Witness == Len(flips) = 3 /\ z >= 2 /\ flips[1] # xyz_y

\* Names are unique in the metadata table.
UniqueNames == \A i, j \in DOMAIN metadata : metadata[i].name = metadata[j].name => i = j

\* The mapping {name: value} of a table with unique names.
MappingOf(table) ==
    [n \in {table[i].name : i \in DOMAIN table}
        |-> table[CHOOSE i \in DOMAIN table : table[i].name = n].value]

\* C9: with unique names, get_metadata() returns the mapping of all metadata
\* rows, and GET /metadata answers 200 with that mapping.
C9_MetadataRoundTrip ==
    UniqueNames =>
        /\ pc = "returned" => meta_ret = MappingOf(metadata)
        /\ pc = "done" => (status = 200 /\ json = MappingOf(metadata))

C9_Witness == UniqueNames /\ Len(metadata) = 3 /\ pc = "done" /\ status = 200

\* C10: the rows queried for a request are flip(z, y) alone, or flip(z, y) and
\* then y, the latter only after the converted row held no tile; no row is
\* queried twice, and at most one decompression is made.
C10_OrderedReads ==
    TileResolved =>
        /\ \/ reads = <<Flip(z, xyz_y)>>
           \/ /\ reads = <<Flip(z, xyz_y), xyz_y>>
              /\ ~StoredAt(z, x, Flip(z, xyz_y)).some
        /\ \A i, j \in DOMAIN reads : reads[i] = reads[j] => i = j
        /\ gunzips <= 1

\* C11: of two archives that hold the same tiles and differ in
\* generator_options, the second answers a request with the status, the body
\* and the media type the first answered it with, after as many
\* decompressions; a blob found is decompressed exactly when it starts with
\* the gzip magic, whatever is_compressed() returns.
C11_SniffAuthoritative ==
    /\ (first.given /\ TileAnswered)
       => /\ status = first.status
          /\ body = first.body
          /\ media = first.media
          /\ gunzips = first.gunzips
    /\ (TileResolved /\ status # 404)
       => (gunzips = IF StartsWithMagic(ret.data) THEN 1 ELSE 0)

C11_Witness ==
    /\ first.given
    /\ TileAnswered
    /\ is_compressed(metadata) # is_compressed(other)
    /\ ~is_compressed(metadata)
    /\ StartsWithMagic(ret.data)
    /\ status = 200
    /\ body # ret.data

\* The connections opened by the n-th call of caller p.
OpenedBy(p, n) == {c \in conns : c.owner = CallId(p, n)}

\* C12: in every interleaving of get_metadata and get_tile calls, a call that
\* has returned or raised has opened exactly one connection, which is closed;
\* a connection that a call is using is open; no connection is used by a call
\* other than the one that opened it; and the archive's tiles and metadata are
\* what they were.
C12_ConnectionPerCall ==
    /\ \A p \in DOMAIN procs :
           procs[p].pc \in {"returned", "raised"}
           => /\ Cardinality(OpenedBy(p, procs[p].n)) = 1
              /\ \A c \in OpenedBy(p, procs[p].n) : ~c.open /\ c.id = procs[p].conn
    /\ \A p \in DOMAIN procs :
           procs[p].pc \in {"execute", "fetch"}
           => \E c \in conns : c.id = procs[p].conn /\ c.open
    /\ \A c \in conns : c.users \subseteq {c.owner}
    /\ (procs # <<>>) => (tiles = ConnTiles /\ metadata = FixtureMetadata)

C12_Witness ==
    /\ procs # <<>>
    /\ procs[1].pc = "raised"
    /\ procs[1].n = 2
    /\ procs[2].pc = "fetch"
    /\ \E c \in conns : c.owner = CallId(1, 1) /\ ~c.open /\ c.users # {}

=============================================================================
